---- MODULE Spec2Model ----
(***************************************************************************)
(* Model of graftcp-local (src/graftcp-local/local.go): the proxy          *)
(* selector, the FIFO record decoder, the PID/destination correlation and  *)
(* the bidirectional relay with its shutdown discipline.                   *)
(*                                                                         *)
(* Strings are modelled as sequences of one-character strings, so that     *)
(* strings.Split, slicing and concatenation are computed, not assumed.     *)
(***************************************************************************)
EXTENDS Integers, Sequences, FiniteSets, TLC

(***************************************************************************)
(* Bounds of the model.                                                    *)
(***************************************************************************)
MaxIPLen == 3       \* longest destination-ip field of a generated record
MaxFieldLen == 1    \* longest port / pid field of a generated record
MaxConns == 2       \* inbound connections the listener accepts
MaxRecords == 2     \* records the FIFO delivers before it ends
MaxAcceptErrs == 1  \* accept errors the listener sees
MaxSelects == 2     \* calls of proxySelector in the selector specification

(***************************************************************************)
(* modeT (local.go:18-31): iota numbering of the selection modes.          *)
(***************************************************************************)
AutoSelectMode == 0
RandomSelectMode == 1
OnlySocks5Mode == 2
OnlyHttpProxyMode == 3
DirectMode == 4

\* A nil proxy.Dialer / the three dialers NewLocal can configure.
Nil == "nil"
Socks5 == "socks5"
HttpProxy == "http"
Direct == "direct"

\* Mode strings handed to SetSelectMode: the five literals and two others.
ValidModeStrings == {"auto", "random", "only_http_proxy", "only_socks5", "direct"}
ModeStrings == ValidModeStrings \cup {"", "bogus"}

VARIABLES
    selectMode,       \* Local.selectMode
    socks5Dialer,     \* Local.socks5Dialer (Nil when not configured)
    httpProxyDialer,  \* Local.httpProxyDialer (Nil when not configured)
    directDialer,     \* Local.directDialer
    lastModeArg,      \* argument of the latest SetSelectMode call ("unset": never called)
    lastValidMode,    \* history: mode in force, as a mode string
    selCalls,         \* number of proxySelector calls made (selector specification)
    selResult,        \* result of the latest proxySelector call
    selSeen,          \* history: results returned since the mode was last set
    fifoLeft,         \* records the FIFO writer will still deliver
    decPc,            \* UpdateProcessAddrInfo: "read" in the loop, "exit" after the break
    lastLine,         \* the record read by the latest ReadLine
    readLog,          \* history: the records read so far, in order
    fifoEnded,        \* history: ReadLine has returned end-of-stream or an error
    stores,           \* started StorePidAddr goroutines that have not run yet
    nstore,           \* history: number of registry insertions performed
    pidAddr,          \* the PID -> address registry; each entry carries the
                      \* number of the insertion that wrote it (history)
    backlog,          \* inbound connections that will still arrive
    nAccepted,        \* connections accepted so far; they are numbered 1..nAccepted
    acceptErrs,       \* accept errors seen so far
    lnWait,           \* connection whose handler the accept loop waits for (0: none)
    owner,            \* owner[c]: the PID for which hasIncludeInode answers true
    pc,               \* pc[c]: position of the handler of connection c
    gPid,             \* getPidByAddr: pid
    gDest,            \* getPidByAddr: destAddr
    gTry,             \* getPidByAddr: i
    gId,              \* history: insertion number of the entry the scan matched
    dialer,           \* HandleConn: dialer
    dials,            \* history: dials through the selected dialer
    dialFailed,       \* history: the dial through the selected dialer failed
    directDials,      \* history: fallback dials of net.Dial
    directAddr,       \* history: address of the latest fallback dial
    clientClosed,     \* history: number of conn.Close() calls
    upstream,         \* destConn: "none", "open" or "closed"
    pipePc,           \* pipePc[c][k]: position of copy task k ("w": upstream to
                      \* client, reports on writeChan; "r": client to upstream)
    deadline,         \* deadline[c]: connections of the session with an elapsed deadline
    hist              \* history: hist[c] counts the calls the handler of c has made

lnVars == <<backlog, nAccepted, acceptErrs, lnWait>>
corrVars == <<owner, gPid, gDest, gTry, gId>>
connVars == <<dialer, dials, dialFailed, directDials, directAddr, clientClosed, upstream>>
relayVars == <<pipePc, deadline>>

decVars == <<fifoLeft, decPc, lastLine, readLog, fifoEnded, stores, nstore, pidAddr>>

cfgVars == <<selectMode, socks5Dialer, httpProxyDialer, directDialer>>
selVars == <<lastModeArg, lastValidMode, selCalls, selResult, selSeen>>
runVars == <<lnVars, corrVars, connVars, relayVars, pc, hist>>
vars == <<cfgVars, selVars, decVars, runVars>>

(***************************************************************************)
(* Strings.                                                                *)
(***************************************************************************)
EmptyStr == << >>
Colon == ":"
Chars == {"1", "2"}

\* All strings over alphabet of length at most n.
RECURSIVE StringsUpTo(_, _)
StringsUpTo(alphabet, n) ==
    IF n = 0 THEN {EmptyStr}
    ELSE LET shorter == StringsUpTo(alphabet, n - 1)
         IN  shorter \cup {Append(w, ch) : w \in shorter, ch \in alphabet}

\* Index of the first ':' of s, 0 when there is none.
RECURSIVE IndexColon(_, _)
IndexColon(s, from) ==
    IF from > Len(s) THEN 0
    ELSE IF s[from] = Colon THEN from
    ELSE IndexColon(s, from + 1)

\* strings.Split(s, ":"), as used at local.go:243.
RECURSIVE Split(_)
Split(s) ==
    LET i == IndexColon(s, 1)
    IN  IF i = 0 THEN <<s>>
        ELSE <<SubSeq(s, 1, i - 1)>> \o Split(SubSeq(s, i + 1, Len(s)))

(***************************************************************************)
(* The body of the decode loop for one line (local.go:241-260):            *)
(* ok = FALSE for a record of fewer than 3 fields, else the (pid, addr)    *)
(* handed to StorePidAddr.                                                 *)
(***************************************************************************)
DecodeOffByOne(copyLine) ==
    LET s == Split(copyLine)
    IN  IF Len(s) < 3 THEN [ok |-> FALSE, pid |-> EmptyStr, addr |-> EmptyStr]
        ELSE IF Len(s) > 3
        THEN LET pid == s[Len(s)]
                 destPort == s[Len(s) - 1]
                 destIP == SubSeq(copyLine, 1,
                                  Len(copyLine) - 1 - Len(pid) - Len(destPort))
             IN  [ok |-> TRUE, pid |-> pid,
                  addr |-> <<"[">> \o destIP \o <<"]", ":">> \o destPort]
        ELSE [ok |-> TRUE, pid |-> s[3], addr |-> s[1] \o <<":">> \o s[2]]

Decode(copyLine) ==
    LET s == Split(copyLine)
    IN  IF Len(s) < 3 THEN [ok |-> FALSE, pid |-> EmptyStr, addr |-> EmptyStr]
        ELSE IF Len(s) > 3
        THEN LET pid == s[Len(s)]
                 destPort == s[Len(s) - 1]
                 destIP == SubSeq(copyLine, 1,
                                  Len(copyLine) - 2 - Len(pid) - Len(destPort))
             IN  [ok |-> TRUE, pid |-> pid,
                  addr |-> <<"[">> \o destIP \o <<"]", ":">> \o destPort]
        ELSE [ok |-> TRUE, pid |-> s[3], addr |-> s[1] \o <<":">> \o s[2]]

(***************************************************************************)
(* Local.SetSelectMode (local.go:93-106): a switch without default; an     *)
(* unrecognised string leaves selectMode as it is.                         *)
(***************************************************************************)
SetSelectModeDefaultsToSocks5(cur, mode) ==
    CASE mode = "auto" -> AutoSelectMode
      [] mode = "random" -> RandomSelectMode
      [] mode = "only_http_proxy" -> OnlyHttpProxyMode
      [] mode = "only_socks5" -> OnlySocks5Mode
      [] mode = "direct" -> DirectMode
      [] OTHER -> OnlySocks5Mode

SetSelectModeValue(cur, mode) ==
    CASE mode = "auto" -> AutoSelectMode
      [] mode = "random" -> RandomSelectMode
      [] mode = "only_http_proxy" -> OnlyHttpProxyMode
      [] mode = "only_socks5" -> OnlySocks5Mode
      [] mode = "direct" -> DirectMode
      [] OTHER -> cur

(***************************************************************************)
(* Local.proxySelector (local.go:108-139).  rnd is the value of            *)
(* rand.Intn(2).                                                           *)
(***************************************************************************)
proxySelectorRandomFallsToDirect(mode, s5, http, direct, rnd) ==
    CASE mode = AutoSelectMode ->
            IF s5 # Nil THEN s5 ELSE IF http # Nil THEN http ELSE direct
      [] mode = RandomSelectMode ->
            IF s5 # Nil /\ http # Nil
            THEN (IF rnd = 0 THEN s5 ELSE http)
            ELSE IF s5 # Nil THEN s5
            ELSE IF http # Nil THEN http ELSE direct
      [] mode = OnlySocks5Mode -> IF s5 # Nil THEN s5 ELSE direct
      [] mode = OnlyHttpProxyMode -> http
      [] mode = DirectMode -> direct
      [] OTHER -> s5

proxySelectorRandomStuck(mode, s5, http, direct, rnd) ==
    CASE mode = AutoSelectMode ->
            IF s5 # Nil THEN s5 ELSE IF http # Nil THEN http ELSE direct
      [] mode = RandomSelectMode ->
            IF s5 # Nil THEN s5 ELSE http
      [] mode = OnlySocks5Mode -> s5
      [] mode = OnlyHttpProxyMode -> http
      [] mode = DirectMode -> direct
      [] OTHER -> s5

proxySelector(mode, s5, http, direct, rnd) ==
    CASE mode = AutoSelectMode ->
            IF s5 # Nil THEN s5 ELSE IF http # Nil THEN http ELSE direct
      [] mode = RandomSelectMode ->
            IF s5 # Nil /\ http # Nil
            THEN (IF rnd = 0 THEN s5 ELSE http)
            ELSE IF s5 # Nil THEN s5 ELSE http
      [] mode = OnlySocks5Mode -> s5
      [] mode = OnlyHttpProxyMode -> http
      [] mode = DirectMode -> direct
      [] OTHER -> s5

(***************************************************************************)
(* NewLocal (local.go:47-90): direct is always set, SOCKS5 and HTTP are    *)
(* set when their constructors succeed; selectMode keeps its zero value.   *)
(***************************************************************************)
NewLocal ==
    /\ selectMode = AutoSelectMode
    /\ socks5Dialer \in {Nil, Socks5}
    /\ httpProxyDialer \in {Nil, HttpProxy}
    /\ directDialer = Direct

\* The selector history before any call.
SelIdle ==
    /\ lastModeArg = "unset"
    /\ lastValidMode = "auto"
    /\ selCalls = 0
    /\ selResult = "none yet"
    /\ selSeen = {}

(***************************************************************************)
(* The registry (StorePidAddr, DeletePidAddr, RangePidAddr) and the two    *)
(* kernel inspectors (getInodeByAddrs, hasIncludeInode) are collaborators  *)
(* that local.go calls and does not define.  The registry is a map from    *)
(* PID to address whose operations are atomic.                             *)
(***************************************************************************)
StorePidAddrValue(reg, pid, addr, id) ==
    [p \in DOMAIN reg \cup {pid} |->
        IF p = pid THEN [addr |-> addr, id |-> id] ELSE reg[p]]

DeletePidAddrValue(reg, pid) ==
    [p \in DOMAIN reg \ {pid} |-> reg[p]]

\* hasIncludeInode(p, inode of connection c)
hasIncludeInode(p, c) == owner[c] = <<p>>

\* The entries on which the visitor of RangePidAddr (local.go:166-173)
\* answers false, stopping the iteration.
RangeMatches(reg, c) == {p \in DOMAIN reg : hasIncludeInode(p, c)}

Conns == 1..MaxConns
Tasks == {"w", "r"}
Client == "client"
Upstream == "upstream"
\* pipe(conn, destConn, writeChan) and pipe(destConn, conn, readChan)
\* (local.go:216-217): source and destination of each copy task.
PipeSrc(k) == IF k = "w" THEN Upstream ELSE Client
PipeDst(k) == IF k = "w" THEN Client ELSE Upstream

\* Records written to the FIFO in the run specifications:
\* "1:8:7", "2:8:7" (same PID, other address), "1:8:" (empty PID) and
\* "1:8" (fewer than 3 fields).
RunLines == { <<"1", ":", "8", ":", "7">>, <<"2", ":", "8", ":", "7">>,
              <<"1", ":", "8", ":">>, <<"1", ":", "8">> }
\* The answers of hasIncludeInode: no registered PID owns the inode, or the
\* PID "7" or the PID "" is reported as its owner.
OwnerChoices == { << >>, << <<"7">> >>, << EmptyStr >> }

\* The history of a handler that has made no call yet: calls of
\* getInodeByAddrs, passes of RangePidAddr, sleeps, calls of DeletePidAddr,
\* calls of proxySelector and of destConn.Close(); whether getInodeByAddrs
\* failed; the value of i at the pass whose visitor matched (-1: none);
\* whether a dial succeeded.
NoCalls ==
    [lookups |-> 0, scans |-> 0, sleeps |-> 0, deletes |-> 0, selects |-> 0,
     upCloses |-> 0, inodeErr |-> FALSE, hitTry |-> -1, dialOK |-> FALSE]

DecInit ==
    /\ decPc = "read"
    /\ lastLine = EmptyStr
    /\ readLog = << >>
    /\ fifoEnded = FALSE
    /\ stores = {}
    /\ nstore = 0
    /\ pidAddr = << >>

RunInit ==
    /\ nAccepted = 0
    /\ acceptErrs = 0
    /\ lnWait = 0
    /\ owner = [c \in Conns |-> << >>]
    /\ pc = [c \in Conns |-> "idle"]
    /\ gPid = [c \in Conns |-> EmptyStr]
    /\ gDest = [c \in Conns |-> EmptyStr]
    /\ gTry = [c \in Conns |-> 0]
    /\ gId = [c \in Conns |-> 0]
    /\ dialer = [c \in Conns |-> Nil]
    /\ dials = [c \in Conns |-> 0]
    /\ dialFailed = [c \in Conns |-> FALSE]
    /\ directDials = [c \in Conns |-> 0]
    /\ directAddr = [c \in Conns |-> EmptyStr]
    /\ clientClosed = [c \in Conns |-> 0]
    /\ upstream = [c \in Conns |-> "none"]
    /\ pipePc = [c \in Conns |-> [k \in Tasks |-> "off"]]
    /\ deadline = [c \in Conns |-> {}]
    /\ hist = [c \in Conns |-> NoCalls]

SelInit ==
    /\ NewLocal
    /\ SelIdle
    /\ fifoLeft = 0
    /\ backlog = 0
    /\ DecInit
    /\ RunInit

\* main() calling l.SetSelectMode(mode) with any string.
SetSelectMode(mode) ==
    /\ selectMode' = SetSelectModeValue(selectMode, mode)
    /\ lastModeArg' = mode
    /\ lastValidMode' = IF mode \in ValidModeStrings THEN mode ELSE lastValidMode
    /\ selCalls' = 0
    /\ selResult' = "none yet"
    /\ selSeen' = {}
    /\ UNCHANGED <<socks5Dialer, httpProxyDialer, directDialer, decVars, runVars>>

\* One call of l.proxySelector(), as HandleConn makes it (local.go:199).
SelectCall(rnd) ==
    /\ selCalls < MaxSelects
    /\ selCalls' = selCalls + 1
    /\ selResult' = proxySelector(selectMode, socks5Dialer, httpProxyDialer,
                                  directDialer, rnd)
    /\ selSeen' = selSeen \cup {selResult'}
    /\ UNCHANGED <<cfgVars, lastModeArg, lastValidMode, decVars, runVars>>

SelNext ==
    \/ \E mode \in ModeStrings : SetSelectMode(mode)
    \/ \E rnd \in 0..1 : SelectCall(rnd)

SpecSel == SelInit /\ [][SelNext]_vars

(***************************************************************************)
(* Local.UpdateProcessAddrInfo (local.go:233-263).                         *)
(***************************************************************************)
\* `break` on a record of fewer than 3 fields.
AfterShortRecordBreaks == "exit"

\* `continue` on a record of fewer than 3 fields (local.go:244-247).
AfterShortRecord == "read"

\* `continue` on a read error.
AfterReadErrContinues == "read"

\* `break` on end-of-stream or a read error (local.go:237-240).
AfterReadErr == "exit"

\* r.ReadLine() returns a record; the loop body decodes it and starts
\* `go StorePidAddr(pid, addr)`, or logs and continues on a short record.
ReadLine(line) ==
    /\ decPc = "read"
    /\ fifoLeft > 0
    /\ fifoLeft' = fifoLeft - 1
    /\ lastLine' = line
    /\ readLog' = Append(readLog, line)
    /\ LET d == Decode(line)
       IN  /\ stores' = IF d.ok THEN stores \cup {<<d.pid, d.addr>>} ELSE stores
           /\ decPc' = IF d.ok THEN "read" ELSE AfterShortRecord
    /\ UNCHANGED <<fifoEnded, nstore, pidAddr, cfgVars, selVars, runVars>>

\* r.ReadLine() returns end-of-stream or an error: break.
ReadLineErr ==
    /\ decPc = "read"
    /\ ~fifoEnded
    /\ fifoEnded' = TRUE
    /\ decPc' = AfterReadErr
    /\ UNCHANGED <<fifoLeft, lastLine, readLog, stores, nstore, pidAddr,
                   cfgVars, selVars, runVars>>

\* A started StorePidAddr(pid, addr) goroutine runs.
StorePidAddr(st) ==
    /\ st \in stores
    /\ stores' = stores \ {st}
    /\ nstore' = nstore + 1
    /\ pidAddr' = StorePidAddrValue(pidAddr, st[1], st[2], nstore + 1)
    /\ UNCHANGED <<fifoLeft, decPc, lastLine, readLog, fifoEnded,
                   cfgVars, selVars, runVars>>

(***************************************************************************)
(* Local.Start (local.go:149-156): the accept loop.                        *)
(***************************************************************************)
\* `l.HandleConn(conn)` without `go`: the loop waits for the handler.
StartDispatchInline(c) == c

\* `go l.HandleConn(conn)`: the loop waits for no handler.
StartDispatch(c) == 0

\* The accept loop is at ln.AcceptTCP().
ListenerAtAccept == IF lnWait = 0 THEN TRUE ELSE pc[lnWait] = "done"

\* AcceptTCP returns a connection; its handler starts at getPidByAddr.
AcceptConn(o) ==
    /\ ListenerAtAccept
    /\ backlog > 0
    /\ LET c == nAccepted + 1
       IN  /\ backlog' = backlog - 1
           /\ nAccepted' = c
           /\ lnWait' = StartDispatch(c)
           /\ owner' = [owner EXCEPT ![c] = o]
           /\ pc' = [pc EXCEPT ![c] = "lookup"]
    /\ UNCHANGED <<acceptErrs, gPid, gDest, gTry, gId, connVars, relayVars, hist,
                   cfgVars, selVars, decVars>>

\* AcceptTCP returns an error: log and continue.
AcceptErr ==
    /\ ListenerAtAccept
    /\ acceptErrs < MaxAcceptErrs
    /\ acceptErrs' = acceptErrs + 1
    /\ lnWait' = 0
    /\ UNCHANGED <<backlog, nAccepted, corrVars, connVars, relayVars, pc, hist,
                   cfgVars, selVars, decVars>>

(***************************************************************************)
(* getPidByAddr (local.go:159-183).                                        *)
(***************************************************************************)
\* A failed inode lookup that falls through into the loop.
AfterLookupErrFallsThrough == "scan"

\* `if err != nil { return "", "" }` after getInodeByAddrs (local.go:160-164).
AfterLookupErr == "check"

\* The loop test with a bound of two passes.
LoopContinuesTwice(i) == i < 2

\* The loop test with a bound of four passes.
LoopContinuesFour(i) == i < 4

\* The loop test `i < 3` (local.go:165).
LoopContinues(i) == i < 3

\* getInodeByAddrs fails: return "", "".
InodeLookupFails(c) ==
    /\ pc[c] = "lookup"
    /\ pc' = [pc EXCEPT ![c] = AfterLookupErr]
    /\ hist' = [hist EXCEPT ![c].lookups = @ + 1, ![c].inodeErr = TRUE]
    /\ UNCHANGED <<lnVars, corrVars, connVars, relayVars, cfgVars, selVars, decVars>>

\* getInodeByAddrs succeeds: enter the loop with i = 0.
InodeLookupOK(c) ==
    /\ pc[c] = "lookup"
    /\ pc' = [pc EXCEPT ![c] = "scan"]
    /\ hist' = [hist EXCEPT ![c].lookups = @ + 1]
    /\ UNCHANGED <<lnVars, corrVars, connVars, relayVars, cfgVars, selVars, decVars>>

\* One RangePidAddr pass and the `if pid != ""` that follows it.
RangeScan(c) ==
    /\ pc[c] = "scan"
    /\ LET m == RangeMatches(pidAddr, c)
       IN  IF m = {}
           THEN /\ UNCHANGED <<gPid, gDest, gId>>
                /\ hist' = [hist EXCEPT ![c].scans = @ + 1]
                /\ pc' = [pc EXCEPT ![c] = IF gPid[c] # EmptyStr THEN "delete" ELSE "sleep"]
           ELSE \E p \in m :
                /\ gPid' = [gPid EXCEPT ![c] = p]
                /\ gDest' = [gDest EXCEPT ![c] = pidAddr[p].addr]
                /\ gId' = [gId EXCEPT ![c] = pidAddr[p].id]
                /\ hist' = [hist EXCEPT ![c].scans = @ + 1,
                                        ![c].hitTry = IF @ = -1 THEN gTry[c] ELSE @]
                /\ pc' = [pc EXCEPT ![c] = IF p # EmptyStr THEN "delete" ELSE "sleep"]
    /\ UNCHANGED <<lnVars, owner, gTry, connVars, relayVars, cfgVars, selVars, decVars>>

\* time.Sleep, i++ and the loop test; after the third pass the function
\* returns (pid is "" here, so DeletePidAddr is skipped).
SleepAndRetry(c) ==
    /\ pc[c] = "sleep"
    /\ gTry' = [gTry EXCEPT ![c] = gTry[c] + 1]
    /\ pc' = [pc EXCEPT ![c] = IF LoopContinues(gTry[c] + 1) THEN "scan" ELSE "check"]
    /\ hist' = [hist EXCEPT ![c].sleeps = @ + 1]
    /\ UNCHANGED <<lnVars, owner, gPid, gDest, gId, connVars, relayVars,
                   cfgVars, selVars, decVars>>

\* DeletePidAddr(pid) and return.
DeleteMatched(c) ==
    /\ pc[c] = "delete"
    /\ pidAddr' = DeletePidAddrValue(pidAddr, gPid[c])
    /\ pc' = [pc EXCEPT ![c] = "check"]
    /\ hist' = [hist EXCEPT ![c].deletes = @ + 1]
    /\ UNCHANGED <<lnVars, corrVars, connVars, relayVars, cfgVars, selVars,
                   fifoLeft, decPc, lastLine, readLog, fifoEnded, stores, nstore>>

(***************************************************************************)
(* Local.HandleConn (local.go:185-223).                                    *)
(***************************************************************************)
\* <-writeChan without the <-readChan that follows it.
AfterWriteChanSkipsRead == "close"

\* After <-writeChan the handler goes on to <-readChan (local.go:218-219).
AfterWriteChan == "waitR"

\* The fallback test with the mode test dropped.
DialFallbackAlways(mode) == TRUE

\* `err != nil && l.selectMode == AutoSelectMode` for a failed dial
\* (local.go:206).
DialFallback(mode) == mode = AutoSelectMode

\* A return that leaves the client connection open.
ReturnWithoutClose(c) ==
    /\ UNCHANGED clientClosed
    /\ pc' = [pc EXCEPT ![c] = "done"]

\* conn.Close() and return (local.go:194-195, 202-203, 211-212, 220-222).
CloseAndReturn(c) ==
    /\ clientClosed' = [clientClosed EXCEPT ![c] = clientClosed[c] + 1]
    /\ pc' = [pc EXCEPT ![c] = "done"]

\* The test with `&&` in place of `||`.
CorrelationFailedBothEmpty(pid, destAddr) == pid = EmptyStr /\ destAddr = EmptyStr

\* `pid == "" || destAddr == ""` (local.go:192).
CorrelationFailed(pid, destAddr) == pid = EmptyStr \/ destAddr = EmptyStr

\* The test of the correlation result (local.go:192-196).
CheckCorrelation(c) ==
    /\ pc[c] = "check"
    /\ IF CorrelationFailed(gPid[c], gDest[c])
       THEN CloseAndReturn(c)
       ELSE /\ pc' = [pc EXCEPT ![c] = "select"]
            /\ UNCHANGED clientClosed
    /\ UNCHANGED <<lnVars, corrVars, dialer, dials, dialFailed, directDials,
                   directAddr, upstream, relayVars, hist, cfgVars, selVars, decVars>>

\* dialer := l.proxySelector() and the nil test (local.go:199-204).
SelectDialer(c, rnd) ==
    /\ pc[c] = "select"
    /\ LET d == proxySelector(selectMode, socks5Dialer, httpProxyDialer,
                              directDialer, rnd)
       IN  /\ dialer' = [dialer EXCEPT ![c] = d]
           /\ hist' = [hist EXCEPT ![c].selects = @ + 1]
           /\ IF d = Nil
              THEN CloseAndReturn(c)
              ELSE /\ pc' = [pc EXCEPT ![c] = "dial"]
                   /\ UNCHANGED clientClosed
    /\ UNCHANGED <<lnVars, corrVars, dials, dialFailed, directDials, directAddr,
                   upstream, relayVars, cfgVars, selVars, decVars>>

\* A dial succeeded: make the channels and start both copy tasks
\* (local.go:215-217).
StartRelay(c) ==
    /\ upstream' = [upstream EXCEPT ![c] = "open"]
    /\ pipePc' = [pipePc EXCEPT ![c] = [k \in Tasks |-> "copy"]]
    /\ pc' = [pc EXCEPT ![c] = "waitW"]
    /\ UNCHANGED <<clientClosed, deadline>>

\* dialer.Dial("tcp", destAddr) (local.go:205-214).
Dial(c, ok) ==
    /\ pc[c] = "dial"
    /\ dials' = [dials EXCEPT ![c] = dials[c] + 1]
    /\ dialFailed' = [dialFailed EXCEPT ![c] = ~ok]
    /\ hist' = [hist EXCEPT ![c].dialOK = ok]
    /\ IF ok
       THEN StartRelay(c)
       ELSE IF DialFallback(selectMode)
       THEN /\ pc' = [pc EXCEPT ![c] = "dialDirect"]
            /\ UNCHANGED <<clientClosed, upstream, relayVars>>
       ELSE /\ CloseAndReturn(c)
            /\ UNCHANGED <<upstream, relayVars>>
    /\ UNCHANGED <<lnVars, corrVars, dialer, directDials, directAddr,
                   cfgVars, selVars, decVars>>

\* net.Dial("tcp", destAddr), the fallback of auto mode (local.go:207-214).
DialDirect(c, ok) ==
    /\ pc[c] = "dialDirect"
    /\ directDials' = [directDials EXCEPT ![c] = directDials[c] + 1]
    /\ directAddr' = [directAddr EXCEPT ![c] = gDest[c]]
    /\ hist' = [hist EXCEPT ![c].dialOK = ok]
    /\ IF ok
       THEN StartRelay(c)
       ELSE /\ CloseAndReturn(c)
            /\ UNCHANGED <<upstream, relayVars>>
    /\ UNCHANGED <<lnVars, corrVars, dialer, dials, dialFailed,
                   cfgVars, selVars, decVars>>

\* <-writeChan: rendezvous with the send of copy task "w".
RecvWriteChan(c) ==
    /\ pc[c] = "waitW"
    /\ pipePc[c]["w"] = "send"
    /\ pipePc' = [pipePc EXCEPT ![c]["w"] = "done"]
    /\ pc' = [pc EXCEPT ![c] = AfterWriteChan]
    /\ UNCHANGED <<lnVars, corrVars, connVars, deadline, hist, cfgVars, selVars, decVars>>

\* <-readChan: rendezvous with the send of copy task "r".
RecvReadChan(c) ==
    /\ pc[c] = "waitR"
    /\ pipePc[c]["r"] = "send"
    /\ pipePc' = [pipePc EXCEPT ![c]["r"] = "done"]
    /\ pc' = [pc EXCEPT ![c] = "close"]
    /\ UNCHANGED <<lnVars, corrVars, connVars, deadline, hist, cfgVars, selVars, decVars>>

\* conn.Close(); destConn.Close(); return nil (local.go:220-222).
CloseBoth(c) ==
    /\ pc[c] = "close"
    /\ CloseAndReturn(c)
    /\ upstream' = [upstream EXCEPT ![c] = "closed"]
    /\ hist' = [hist EXCEPT ![c].upCloses = @ + 1]
    /\ UNCHANGED <<lnVars, corrVars, dialer, dials, dialFailed, directDials,
                   directAddr, relayVars, cfgVars, selVars, decVars>>

(***************************************************************************)
(* pipe (local.go:225-231).                                                *)
(***************************************************************************)
\* pipe without the two SetDeadline calls.
AfterCopyNoDeadline == "send"

\* After io.Copy the task sets the deadlines (local.go:226-229).
AfterCopy == "setDst"

\* Both connections of the session have an elapsed deadline: every read and
\* write on them fails at once.
DeadlinesElapsed(c) == deadline[c] = {Client, Upstream}

\* io.Copy returns: the source reached end-of-stream, or a read or write
\* failed (with an error, or because of an elapsed deadline).  The peers
\* may end the stream at any time.
CopyReturns(c, k) ==
    /\ pipePc[c][k] = "copy"
    /\ pipePc' = [pipePc EXCEPT ![c][k] = AfterCopy]
    /\ UNCHANGED <<lnVars, corrVars, connVars, deadline, pc, hist, cfgVars, selVars, decVars>>

\* dst.SetDeadline(now)
SetDstDeadline(c, k) ==
    /\ pipePc[c][k] = "setDst"
    /\ deadline' = [deadline EXCEPT ![c] = deadline[c] \cup {PipeDst(k)}]
    /\ pipePc' = [pipePc EXCEPT ![c][k] = "setSrc"]
    /\ UNCHANGED <<lnVars, corrVars, connVars, pc, hist, cfgVars, selVars, decVars>>

\* src.SetDeadline(now); the task then blocks in `c <- n`.
SetSrcDeadline(c, k) ==
    /\ pipePc[c][k] = "setSrc"
    /\ deadline' = [deadline EXCEPT ![c] = deadline[c] \cup {PipeSrc(k)}]
    /\ pipePc' = [pipePc EXCEPT ![c][k] = "send"]
    /\ UNCHANGED <<lnVars, corrVars, connVars, pc, hist, cfgVars, selVars, decVars>>

(***************************************************************************)
(* The running program: listener, handlers, copy tasks and decoder.        *)
(***************************************************************************)
\* The states NewLocal and main's SetSelectMode call can leave.
Configured ==
    /\ selectMode \in {AutoSelectMode, RandomSelectMode, OnlySocks5Mode,
                       OnlyHttpProxyMode, DirectMode}
    /\ socks5Dialer \in {Nil, Socks5}
    /\ httpProxyDialer \in {Nil, HttpProxy}
    /\ directDialer = Direct

ListenerNext ==
    \/ \E o \in OwnerChoices : AcceptConn(o)
    \/ AcceptErr

DecoderNext ==
    \/ \E line \in RunLines : ReadLine(line)
    \/ ReadLineErr
    \/ \E st \in stores : StorePidAddr(st)

CorrNext(c) ==
    \/ InodeLookupFails(c)
    \/ InodeLookupOK(c)
    \/ RangeScan(c)
    \/ SleepAndRetry(c)
    \/ DeleteMatched(c)
    \/ CheckCorrelation(c)

ConnNext(c) ==
    \/ \E rnd \in 0..1 : SelectDialer(c, rnd)
    \/ \E ok \in BOOLEAN : Dial(c, ok)
    \/ \E ok \in BOOLEAN : DialDirect(c, ok)
    \/ RecvWriteChan(c)
    \/ RecvReadChan(c)
    \/ CloseBoth(c)

PipeNext(c, k) ==
    \/ CopyReturns(c, k)
    \/ SetDstDeadline(c, k)
    \/ SetSrcDeadline(c, k)

\* One connection and one FIFO record, under every configuration: the
\* handler of a connection from its accept to its return.
Init ==
    /\ Configured
    /\ SelIdle
    /\ fifoLeft = 1
    /\ backlog = 1
    /\ DecInit
    /\ RunInit

Next ==
    \/ ListenerNext
    \/ DecoderNext
    \/ \E c \in Conns : CorrNext(c) \/ ConnNext(c)
    \/ \E c \in Conns, k \in Tasks : PipeNext(c, k)

Spec == Init /\ [][Next]_vars

\* The Go scheduler runs every goroutine that can take a step; an I/O call
\* on connections whose deadlines have elapsed returns.  The peers owe
\* nothing: a copy whose deadlines have not elapsed may block for ever, and
\* so may the listener, the FIFO and a dial.
RelayFairness ==
    \A c \in Conns :
        /\ WF_vars(RecvWriteChan(c))
        /\ WF_vars(RecvReadChan(c))
        /\ WF_vars(CloseBoth(c))
        /\ \A k \in Tasks :
            /\ WF_vars(DeadlinesElapsed(c) /\ CopyReturns(c, k))
            /\ WF_vars(SetDstDeadline(c, k))
            /\ WF_vars(SetSrcDeadline(c, k))

SpecFair == Spec /\ RelayFairness

(***************************************************************************)
(* Concurrent correlations: the listener, the decoder and getPidByAddr up  *)
(* to HandleConn's test of its result.                                     *)
(***************************************************************************)
CorrInit ==
    /\ NewLocal
    /\ socks5Dialer = Socks5
    /\ httpProxyDialer = HttpProxy
    /\ SelIdle
    /\ fifoLeft = MaxRecords
    /\ backlog = MaxConns
    /\ DecInit
    /\ RunInit

CorrSpecNext ==
    \/ ListenerNext
    \/ DecoderNext
    \/ \E c \in Conns : CorrNext(c)

SpecCorr == CorrInit /\ [][CorrSpecNext]_vars

(***************************************************************************)
(* Concurrent handlers: the decoder has stored the record "1:8:7" and its  *)
(* stream has ended; the listener accepts MaxConns connections.            *)
(***************************************************************************)
ListenInit ==
    /\ Configured
    /\ SelIdle
    /\ fifoLeft = 0
    /\ backlog = MaxConns
    /\ decPc = "exit"
    /\ lastLine = <<"1", ":", "8", ":", "7">>
    /\ readLog = <<lastLine>>
    /\ fifoEnded = TRUE
    /\ stores = {}
    /\ nstore = 1
    /\ pidAddr = StorePidAddrValue(<< >>, Decode(lastLine).pid, Decode(lastLine).addr, 1)
    /\ RunInit

ListenNext ==
    \/ ListenerNext
    \/ \E c \in Conns : CorrNext(c) \/ ConnNext(c)
    \/ \E c \in Conns, k \in Tasks : PipeNext(c, k)

SpecListen == ListenInit /\ [][ListenNext]_vars

(***************************************************************************)
(* The decoder on its own, fed with every record ip ':' port ':' pid whose *)
(* fields stay within the bounds.                                          *)
(***************************************************************************)
BuildRecord(ip, port, pid) == ip \o <<Colon>> \o port \o <<Colon>> \o pid

IPs == StringsUpTo(Chars \cup {Colon}, MaxIPLen)
Fields == StringsUpTo(Chars, MaxFieldLen)
GenLines == {BuildRecord(ip, port, pid) : ip \in IPs, port \in Fields, pid \in Fields}

\* The FIFO delivers one record.
DecSpecInit ==
    /\ NewLocal
    /\ socks5Dialer = Socks5
    /\ httpProxyDialer = HttpProxy
    /\ SelIdle
    /\ fifoLeft = 1
    /\ backlog = 0
    /\ DecInit
    /\ RunInit

DecNext ==
    \/ \E line \in GenLines : ReadLine(line)
    \/ ReadLineErr
    \/ \E st \in stores : StorePidAddr(st)

SpecDec == DecSpecInit /\ [][DecNext]_vars

(***************************************************************************)
(* The decoder on its own, fed with MaxRecords records: well-formed ones   *)
(* for the PID "7" and for the empty PID, and one of two fields.           *)
(***************************************************************************)
FifoInit ==
    /\ NewLocal
    /\ socks5Dialer = Socks5
    /\ httpProxyDialer = HttpProxy
    /\ SelIdle
    /\ fifoLeft = MaxRecords
    /\ backlog = 0
    /\ DecInit
    /\ RunInit

SpecFifo == FifoInit /\ [][DecoderNext]_vars

\* The address the wire format prescribes for a record's ip and port.
ExpectedAddr(ip, port) ==
    IF IndexColon(ip, 1) = 0
    THEN ip \o <<Colon>> \o port
    ELSE <<"[">> \o ip \o <<"]", Colon>> \o port

\* C8: reading the record ip ':' port ':' pid starts exactly the insertion
\* of (pid, ip ':' port) when ip has no colon and of (pid, '[' ip ']:' port)
\* when it has.
C8_DecodeRoundTrip ==
    [][\A ip \in IPs, port \in Fields, pid \in Fields :
          (fifoLeft' = fifoLeft - 1 /\ lastLine' = BuildRecord(ip, port, pid)) =>
              stores' = stores \cup {<<pid, ExpectedAddr(ip, port)>>}]_vars

C8_Witness ==
    /\ lastLine = <<":", ":", "1", ":", "2", ":", "1">>
    /\ <<"1">> \in DOMAIN pidAddr
    /\ pidAddr[<<"1">>].addr = <<"[", ":", ":", "1", "]", ":", "2">>

(***************************************************************************)
(* Properties of the proxy selector.                                       *)
(***************************************************************************)
\* The dialers NewLocal configured.
ConfiguredDialers == {socks5Dialer, httpProxyDialer, directDialer} \ {Nil}

\* The selection mode named by a configuration string.
ModeOfString(str) ==
    CASE str = "auto" -> AutoSelectMode
      [] str = "random" -> RandomSelectMode
      [] str = "only_socks5" -> OnlySocks5Mode
      [] str = "only_http_proxy" -> OnlyHttpProxyMode
      [] str = "direct" -> DirectMode

\* The mode table: the results a mode allows for a dialer configuration.
ModeTable(str, s5, http, direct) ==
    CASE str = "auto" ->
            IF s5 # Nil THEN {s5} ELSE IF http # Nil THEN {http} ELSE {direct}
      [] str = "random" ->
            IF s5 # Nil /\ http # Nil THEN {s5, http}
            ELSE IF s5 # Nil THEN {s5}
            ELSE IF http # Nil THEN {http} ELSE {Nil}
      [] str = "only_socks5" -> {s5}
      [] str = "only_http_proxy" -> {http}
      [] str = "direct" -> {direct}

\* C1: proxySelector returns none or a configured dialer; only_socks5
\* without a SOCKS5 dialer and only_http_proxy without an HTTP dialer return
\* none, never the direct dialer.
C1_SelectsOnlyConfigured ==
    selCalls > 0 =>
        /\ selResult \in ConfiguredDialers \cup {Nil}
        /\ (selectMode = OnlySocks5Mode /\ socks5Dialer = Nil) => selResult = Nil
        /\ (selectMode = OnlyHttpProxyMode /\ httpProxyDialer = Nil) => selResult = Nil

C1_Witness ==
    /\ selCalls > 0
    /\ selectMode = OnlySocks5Mode
    /\ socks5Dialer = Nil
    /\ httpProxyDialer = HttpProxy
    /\ selResult = Nil

\* C2 as stated: after an unrecognised mode string, or with SetSelectMode
\* never called, proxySelector returns the SOCKS5 dialer or none.
C2_InvalidModeIsOnlySocks5 ==
    (selCalls > 0 /\ lastModeArg \notin ValidModeStrings) =>
        selResult = socks5Dialer

\* C2 amended: an unrecognised mode string leaves the selection mode as it
\* was (auto when no recognised string was ever given), and proxySelector
\* keeps following the mode table of that mode.
C2_InvalidModeKeepsMode ==
    /\ selectMode = ModeOfString(lastValidMode)
    /\ selCalls > 0 =>
          selResult \in ModeTable(lastValidMode, socks5Dialer, httpProxyDialer,
                                  directDialer)

C2_Witness ==
    /\ lastModeArg = "bogus"
    /\ lastValidMode = "direct"
    /\ selCalls > 0
    /\ selResult = Direct

\* C10: the result of proxySelector equals the mode table for every mode
\* and dialer configuration, and in random mode with both proxies
\* configured each call can return either of them.
C10_ModeTable ==
    /\ selCalls > 0 =>
          \E str \in ValidModeStrings :
              /\ ModeOfString(str) = selectMode
              /\ selResult \in ModeTable(str, socks5Dialer, httpProxyDialer,
                                         directDialer)
    /\ selectMode = AutoSelectMode /\ selCalls > 0 => selResult # Nil
    /\ (selectMode = RandomSelectMode /\ socks5Dialer # Nil /\ httpProxyDialer # Nil) =>
          {proxySelector(selectMode, socks5Dialer, httpProxyDialer, directDialer, rnd) :
              rnd \in 0..1} = {Socks5, HttpProxy}

C10_Witness ==
    /\ selectMode = RandomSelectMode
    /\ selCalls = 2
    /\ selResult = Socks5
    /\ selSeen = {Socks5, HttpProxy}

(***************************************************************************)
(* Properties of correlation.                                              *)
(***************************************************************************)
\* getPidByAddr of connection c has returned to HandleConn.
Correlated(c) == pc[c] \notin {"idle", "lookup", "scan", "sleep", "delete"}

\* C3: the pair returned by getPidByAddr is (non-empty pid, non-empty
\* destination) or ("", ""), never partially populated.
C3_ResultNeverPartial ==
    \A c \in Conns :
        Correlated(c) =>
            \/ gPid[c] # EmptyStr /\ gDest[c] # EmptyStr
            \/ gPid[c] = EmptyStr /\ gDest[c] = EmptyStr

\* C4: one inserted registry entry is never returned as the result of two
\* different correlations.
C4_EntryServesOnce ==
    \A c1, c2 \in Conns :
        (c1 # c2 /\ Correlated(c1) /\ Correlated(c2)
            /\ gPid[c1] # EmptyStr /\ gPid[c2] # EmptyStr) =>
                gId[c1] # gId[c2]

(***************************************************************************)
(* Properties of the handler and the relay.                                *)
(***************************************************************************)
\* C5: in a relay session no connection is closed and HandleConn does not
\* return before both copy tasks have finished and reported completion.
C5_CloseAfterBothTasks ==
    \A c \in Conns :
        (upstream[c] # "none"
            /\ (clientClosed[c] > 0 \/ upstream[c] = "closed" \/ pc[c] \in {"close", "done"})) =>
                \A k \in Tasks : pipePc[c][k] = "done"

C5_Witness ==
    /\ pc[1] = "done"
    /\ upstream[1] = "closed"
    /\ clientClosed[1] = 1
    /\ \A k \in Tasks : pipePc[1][k] = "done"

\* C6: once the copy of either task has ended, the session terminates: both
\* tasks report, in the order writeChan then readChan, and both connections
\* are closed.
C6_RelayTerminates ==
    \A c \in Conns :
        (\E k \in Tasks : pipePc[c][k] \notin {"off", "copy"}) ~>
            (/\ pc[c] = "done"
             /\ upstream[c] = "closed"
             /\ clientClosed[c] = 1
             /\ \A k \in Tasks : pipePc[c][k] = "done")

\* The client-to-upstream task finished first and waits to report while the
\* other task is still copying and the handler waits on writeChan.
C6_Witness ==
    /\ pc[1] = "waitW"
    /\ pipePc[1]["r"] = "send"
    /\ pipePc[1]["w"] = "copy"
    /\ DeadlinesElapsed(1)

\* C7: after a failed dial through the selected SOCKS5 or HTTP dialer, auto
\* mode makes exactly one direct dial to the same destination before it
\* gives up; every other mode makes no further dial and closes the client
\* connection.
C7_DirectFallbackOnlyInAuto ==
    \A c \in Conns :
        (dialFailed[c] /\ dialer[c] \in {Socks5, HttpProxy}) =>
            /\ dials[c] = 1
            /\ IF selectMode = AutoSelectMode
               THEN \/ pc[c] = "dialDirect" /\ directDials[c] = 0
                    \/ directDials[c] = 1 /\ directAddr[c] = gDest[c]
               ELSE /\ directDials[c] = 0
                    /\ pc[c] = "done"
                    /\ clientClosed[c] = 1
                    /\ upstream[c] = "none"

C7_Witness ==
    /\ selectMode = AutoSelectMode
    /\ dialer[1] = HttpProxy
    /\ dialFailed[1]
    /\ directDials[1] = 1
    /\ pc[1] = "done"
    /\ upstream[1] = "none"
    /\ clientClosed[1] = 1

\* C9: whatever the handlers of the accepted connections are doing, the
\* accept loop is at AcceptTCP, and a connection that arrives is accepted.
C9_AcceptNeverBlocked ==
    /\ ListenerAtAccept
    /\ backlog > 0 => ENABLED (\E o \in OwnerChoices : AcceptConn(o))

\* The second connection was accepted after an accept error, while the
\* handler of the first was relaying.
C9_Witness ==
    /\ nAccepted = 2
    /\ acceptErrs = 1
    /\ pc[1] = "waitW"
    /\ pc[2] = "sleep"


(***************************************************************************)
(* Properties of getPidByAddr's retry loop.                                *)
(***************************************************************************)
\* The registry still holds the entry connection c matched.
HoldsMatched(c) == \E p \in DOMAIN pidAddr : pidAddr[p].id = gId[c]

\* C11: when the entry of the PID owning the inode is missing on the first
\* scan and found on a later one, getPidByAddr returns that PID with its
\* destination, and the registry no longer holds the matched entry when it
\* returns.
C11_LateEntryReturnedAndRemoved ==
    \A c \in Conns :
        (Correlated(c) /\ hist[c].hitTry >= 1) =>
            /\ <<gPid[c]>> = owner[c]
            /\ gDest[c] # EmptyStr
            /\ ~HoldsMatched(c)

\* C12: a failed inode lookup makes getPidByAddr return ("", "") at once,
\* with no registry scan, no sleep, no retry and no removal.
C12_LookupFailureReturnsAtOnce ==
    \A c \in Conns :
        hist[c].inodeErr =>
            /\ Correlated(c)
            /\ hist[c].lookups = 1
            /\ hist[c].scans = 0
            /\ hist[c].sleeps = 0
            /\ hist[c].deletes = 0
            /\ gTry[c] = 0
            /\ gPid[c] = EmptyStr
            /\ gDest[c] = EmptyStr

\* The lookup failed while the registry held an entry; the entry is still
\* there after the handler has closed the connection.
C12_Witness ==
    /\ hist[1].inodeErr
    /\ pc[1] = "done"
    /\ clientClosed[1] = 1
    /\ <<"7">> \in DOMAIN pidAddr

\* C13: when the lookup succeeds and no scan finds an owner, getPidByAddr
\* makes exactly 3 scans and returns ("", "") without a removal, and
\* HandleConn closes the client connection without a second correlation.
C13_NoOwnerThreeScans ==
    \A c \in Conns :
        (Correlated(c) /\ ~hist[c].inodeErr /\ hist[c].hitTry = -1) =>
            /\ hist[c].scans = 3
            /\ hist[c].deletes = 0
            /\ gPid[c] = EmptyStr
            /\ gDest[c] = EmptyStr
            /\ pc[c] \in {"check", "done"}
            /\ hist[c].lookups = 1
            /\ hist[c].selects = 0
            /\ pc[c] = "done" => clientClosed[c] = 1 /\ upstream[c] = "none"

\* The registry holds an entry of PID "7", which does not own the inode.
C13_Witness ==
    /\ pc[1] = "done"
    /\ owner[1] = << >>
    /\ ~hist[1].inodeErr
    /\ hist[1].scans = 3
    /\ <<"7">> \in DOMAIN pidAddr
    /\ clientClosed[1] = 1

\* C14 as stated: every attempt repeats the inode lookup and the registry
\* scan, and a sleep occurs only between two attempts.
C14_RetryRepeatsLookup ==
    \A c \in Conns :
        (Correlated(c) /\ ~hist[c].inodeErr) =>
            /\ hist[c].lookups = hist[c].scans
            /\ hist[c].scans <= 3
            /\ hist[c].sleeps = hist[c].scans - 1

\* C14 amended: the inode lookup is made once, before the loop; only the
\* registry scan is repeated, at most 3 times; a sleep follows every scan
\* that leaves the pid empty, the last one included.
C14_LookupOnceSleepAfterEveryMiss ==
    \A c \in Conns :
        /\ hist[c].lookups <= 1
        /\ hist[c].scans <= 3
        /\ (Correlated(c) /\ ~hist[c].inodeErr) =>
              /\ hist[c].lookups = 1
              /\ hist[c].scans >= 1
              /\ IF gPid[c] = EmptyStr
                 THEN hist[c].scans = 3 /\ hist[c].sleeps = 3
                 ELSE hist[c].sleeps = hist[c].scans - 1

\* All three scans failed: one lookup, three sleeps.
C14_Witness ==
    /\ pc[1] = "check"
    /\ hist[1].lookups = 1
    /\ hist[1].scans = 3
    /\ hist[1].sleeps = 3
    /\ gPid[1] = EmptyStr

(***************************************************************************)
(* Properties of HandleConn's paths.                                       *)
(***************************************************************************)
\* A copy task of connection c has been started.
RelayStarted(c) == \E k \in Tasks : pipePc[c][k] # "off"

\* A dial has been made for connection c.
Dialed(c) == dials[c] + directDials[c] > 0

\* C15: selection starts only after a non-empty correlation result, a dial
\* only after a selection that returned a dialer, the relay only after a
\* successful dial; an empty correlation result or a selection of none
\* closes the client connection with no dial and no copy task.
C15_StagesInOrder ==
    \A c \in Conns :
        /\ hist[c].selects <= 1
        /\ (hist[c].selects > 0 \/ pc[c] = "select") =>
              Correlated(c) /\ gPid[c] # EmptyStr /\ gDest[c] # EmptyStr
        /\ (Dialed(c) \/ pc[c] \in {"dial", "dialDirect"}) =>
              hist[c].selects = 1 /\ dialer[c] # Nil
        /\ (RelayStarted(c) \/ upstream[c] # "none") =>
              Dialed(c) /\ hist[c].dialOK
        /\ (Correlated(c) /\ (gPid[c] = EmptyStr \/ gDest[c] = EmptyStr)) =>
              /\ pc[c] \in {"check", "done"}
              /\ ~Dialed(c)
              /\ ~RelayStarted(c)
              /\ pc[c] = "done" => clientClosed[c] = 1
        /\ (hist[c].selects = 1 /\ dialer[c] = Nil) =>
              /\ pc[c] = "done"
              /\ clientClosed[c] = 1
              /\ ~Dialed(c)
              /\ ~RelayStarted(c)

\* Correlation succeeded and the selector returned none.
C15_Witness ==
    /\ pc[1] = "done"
    /\ gPid[1] = <<"7">>
    /\ hist[1].selects = 1
    /\ dialer[1] = Nil
    /\ clientClosed[1] = 1
    /\ dials[1] = 0

\* C20: HandleConn returns with the client connection closed exactly once,
\* with the upstream connection closed exactly once if and only if a dial
\* succeeded, and with no open connection and no running copy task.
C20_ClosesExactlyOnce ==
    \A c \in Conns :
        /\ clientClosed[c] <= 1
        /\ hist[c].upCloses <= 1
        /\ pc[c] # "done" => clientClosed[c] = 0 /\ hist[c].upCloses = 0
        /\ pc[c] = "done" =>
              /\ clientClosed[c] = 1
              /\ hist[c].upCloses = 1 <=> hist[c].dialOK
              /\ upstream[c] # "open"
              /\ \A k \in Tasks : pipePc[c][k] \in {"off", "done"}

\* The proxy dial failed, the direct dial of auto mode succeeded and the
\* relay ran to its end.
C20_Witness ==
    /\ pc[1] = "done"
    /\ dialFailed[1]
    /\ directDials[1] = 1
    /\ hist[1].dialOK
    /\ hist[1].upCloses = 1
    /\ clientClosed[1] = 1


(***************************************************************************)
(* Properties of the decoder.                                              *)
(***************************************************************************)
\* The positions of the well-formed records among those read so far.
WellFormed == {i \in 1..Len(readLog) : Decode(readLog[i]).ok}

\* C16: a record of fewer than 3 fields starts no insertion and does not
\* stop the loop; every well-formed record read, before or after it, has
\* its insertion started and, once the insertions have run, its PID
\* registered.
C16_ShortRecordSkipped ==
    /\ ~fifoEnded => decPc = "read"
    /\ nstore + Cardinality(stores) <= Cardinality(WellFormed)
    /\ \A i \in WellFormed :
          LET d == Decode(readLog[i])
          IN  <<d.pid, d.addr>> \in stores \/ d.pid \in DOMAIN pidAddr

\* The two-field record "1:8" was read first, the record "1:8:7" after it,
\* and the second one is in the registry.
C16_Witness ==
    /\ readLog = << <<"1", ":", "8">>, <<"1", ":", "8", ":", "7">> >>
    /\ nstore = 1
    /\ <<"7">> \in DOMAIN pidAddr
    /\ pidAddr[<<"7">>].addr = <<"1", ":", "8">>

\* A step of the handler of connection c or of one of its copy tasks.
HandlerStep(c) == CorrNext(c) \/ ConnNext(c) \/ \E k \in Tasks : PipeNext(c, k)

\* The handler of connection c or one of its copy tasks is at a statement
\* that does not wait for a peer or for the other task.
HandlerRunnable(c) ==
    \/ pc[c] \in {"lookup", "scan", "sleep", "delete", "check", "select",
                  "dial", "dialDirect", "close"}
    \/ \E k \in Tasks : pipePc[c][k] \in {"copy", "setDst", "setSrc"}

\* C17: once ReadLine has returned end-of-stream or an error the decode
\* loop has exited: no record is read and no insertion started from then
\* on, even if the FIFO has more to deliver, while the listener still
\* accepts and the handlers in flight still run.
C17_DecoderStopsProcessContinues ==
    fifoEnded =>
        /\ decPc = "exit"
        /\ ~ENABLED (\E line \in RunLines : ReadLine(line))
        /\ ~ENABLED ReadLineErr
        /\ backlog > 0 => ENABLED (\E o \in OwnerChoices : AcceptConn(o))
        /\ \A c \in Conns : HandlerRunnable(c) => ENABLED HandlerStep(c)

\* The stream ended after the record "1:8:7"; the connection correlated
\* with it is relaying.
C17_Witness ==
    /\ fifoEnded
    /\ readLog = << <<"1", ":", "8", ":", "7">> >>
    /\ pc[1] = "waitW"
    /\ upstream[1] = "open"
    /\ pipePc[1]["w"] = "copy"

\* C18: after two well-formed records for one PID, once the insertions
\* started for them have run, the registry holds the address of the second
\* record.
C18_LastWriteWins ==
    (/\ Len(readLog) = 2
     /\ WellFormed = {1, 2}
     /\ Decode(readLog[1]).pid = Decode(readLog[2]).pid
     /\ stores = {}
     /\ nstore = 2) =>
        LET d == Decode(readLog[2])
        IN  d.pid \in DOMAIN pidAddr /\ pidAddr[d.pid].addr = d.addr

\* C19: the removal at the end of a successful correlation leaves every
\* entry other than the matched one in the registry.
C19_RemovesOnlyMatched ==
    [][\A c \in Conns :
          (pc[c] = "delete" /\ pc'[c] = "check") =>
              \A p \in DOMAIN pidAddr :
                  pidAddr[p].id # gId[c] =>
                      p \in DOMAIN pidAddr' /\ pidAddr'[p] = pidAddr[p]]_vars

====
